---- MODULE Spec2Model ----
(***************************************************************************)
(* gopher_social: the request access-control pipeline (rate limiter,       *)
(* bearer-token authentication, cache-aside identity resolution, post      *)
(* ownership / role gate) and the transactional part of the user store.    *)
(***************************************************************************)
EXTENDS Integers, Sequences, FiniteSets, TLC

VARIABLES
    redisEnabled,   \* app.config.redisCfg.enabled
    rlEnabled,      \* app.config.rateLimiter.Enabled
    users,          \* table users: id -> row
    posts,          \* table posts: id -> row
    cache,          \* external cache: id -> cached user snapshot (NilUser: no entry)
    storeGetCalls,  \* number of store.Users.GetByID calls issued so far
    req,            \* the request being served and its position in the handler chain
    invitations,    \* table user_invitations: set of rows
    txlog,          \* outcome of the last user-store transaction
    resolvers,      \* concurrent app.getUser calls, each at one of its backing calls
    oldEntry,       \* IDs whose cache entry was there when the user was deleted
    editors,        \* concurrent post requests, each holding the post it read
    now,            \* the clock, in units of mail.exp
    spent           \* the invitation tokens that have activated a user

vars == <<redisEnabled, rlEnabled, users, posts, cache, storeGetCalls, req,
          invitations, txlog, resolvers, oldEntry, editors, now, spent>>

---------------------------------------------------------------------------
\* Bounds of the model
MaxHeaderLen == 3
MaxCalls == 3
MaxNewUsers == 2
MaxResolvers == 2
MaxRequests == 2
MaxTime == 2

---------------------------------------------------------------------------
\* Data

\* Identifiers a subject claim can name; SeedIDs exist at start, the rest do not.
SeedIDs == {1, 2, 3}
UserIDs == 1..(Cardinality(SeedIDs) + MaxNewUsers)

NilUser == [ID |-> 0, Level |-> 0]
NilPost == [ID |-> 0, UserID |-> 0, Title |-> "", Version |-> 0]

\* type User (ID, Role.Level; the other columns do not decide any gate)
UserRec(id, level) == [ID |-> id, Level |-> level]

\* Role rows: name -> level
Roles == [user |-> 1, moderator |-> 2, admin |-> 3]
RoleNames == DOMAIN Roles

PostIDs == {1, 2, 3}

\* Errors
ErrNone == "nil"
ErrRecordNotFound == "ErrRecordNotFound"
ErrStore == "store error"
ErrCacheGet == "cache get error"
ErrCacheSet == "cache set error"
ErrRoles == "roles error"

\* Responses written by the app's response helpers
Unauthorized == "401 Unauthorized"
Forbidden == "403 Forbidden"
RateLimited == "429 Too Many Requests"
Internal == "500 Internal Server Error"
BadRequest == "400 Bad Request"
NotFound == "404 Not Found"
OK == "200 OK"
Created == "201 Created"

---------------------------------------------------------------------------
\* Authorization header: a string over the atoms below; SP is the space.
SP == " "
Atoms == {"Bearer", "Basic", SP, "tok"}

RECURSIVE SeqsUpTo(_, _)
SeqsUpTo(S, n) ==
    IF n = 0 THEN {<<>>}
    ELSE LET shorter == SeqsUpTo(S, n - 1)
         IN shorter \cup {Append(s, a) : s \in {t \in shorter : Len(t) = n - 1}, a \in S}

Headers == SeqsUpTo(Atoms, MaxHeaderLen)

\* strings.Split(s, " "): n separators give n+1 parts, empty parts kept.
RECURSIVE Split(_)
Split(s) ==
    IF s = <<>> THEN << <<>> >>
    ELSE LET rest == Split(Tail(s))
         IN IF Head(s) = SP
            THEN << <<>> >> \o rest
            ELSE << <<Head(s)>> \o Head(rest) >> \o Tail(rest)

---------------------------------------------------------------------------
\* Token claims.  claims["sub"] is a JSON number (float64, here in halves:
\* twice = 3 is 1.5), a string, or a number beyond the int64 range.
Subs == {[kind |-> "float", twice |-> n] : n \in {2, 3, 4, 6, 8}}
        \cup {[kind |-> "string", twice |-> 0], [kind |-> "huge", twice |-> 0]}
NoSub == [kind |-> "none", twice |-> 0]

\* authenticator.ValidateToken: the token is rejected, or it carries claims.
ValidateOutcomes == {[err |-> TRUE, sub |-> NoSub]} \cup {[err |-> FALSE, sub |-> s] : s \in Subs}

\* fmt.Sprintf("%.f", v): a float64 prints rounded half-to-even with no decimals,
\* anything else prints as "%!f(...)".
Sprintf(v) ==
    IF v.kind = "float"
    THEN LET q == v.twice \div 2
         IN [digits |-> TRUE, fits |-> TRUE,
             val |-> IF v.twice % 2 = 0 THEN q ELSE IF q % 2 = 0 THEN q ELSE q + 1]
    ELSE IF v.kind = "huge"
    THEN [digits |-> TRUE, fits |-> FALSE, val |-> 0]
    ELSE [digits |-> FALSE, fits |-> FALSE, val |-> 0]

\* strconv.ParseInt(s, 10, 64): syntax error or out of range, else the value.
ParseInt(s) ==
    IF s.digits /\ s.fits THEN [err |-> FALSE, val |-> s.val] ELSE [err |-> TRUE, val |-> 0]

\* Variant: the number of parts is not checked.
HeaderMalformed_NoLen(h) == Split(h)[1] # <<"Bearer">>

\* len(parts) != 2 || parts[0] != "Bearer"
HeaderMalformed(h) == Len(Split(h)) # 2 \/ Split(h)[1] # <<"Bearer">>

---------------------------------------------------------------------------
\* Backing services.  Each call's failure is chosen by the environment.
Outcomes == {"ok", "err"}

\* UserStore.GetByID: WHERE users.id = $1 AND is_active = true
UsersGetByID(db, id, out) ==
    IF out = "err" THEN [user |-> NilUser, err |-> ErrStore]
    ELSE IF id \in DOMAIN db /\ db[id].exists /\ db[id].active
    THEN [user |-> UserRec(id, db[id].level), err |-> ErrNone]
    ELSE [user |-> NilUser, err |-> ErrRecordNotFound]

\* cacheStorage.Users.Get: the entry, nil when there is none, or an error.
CacheGet(c, id, out) ==
    IF out = "err" THEN [user |-> NilUser, err |-> ErrCacheGet]
    ELSE [user |-> IF id \in DOMAIN c THEN c[id] ELSE NilUser, err |-> ErrNone]

\* cacheStorage.Users.Set: stores the snapshot under the user's ID, or fails.
CacheSet(c, user, out) ==
    IF out = "err" THEN [cache |-> c, err |-> ErrCacheSet]
    ELSE [cache |-> IF user.ID \in DOMAIN c THEN [c EXCEPT ![user.ID] = user] ELSE c,
          err |-> ErrNone]

\* Roles.GetByName
RolesGetByName(name, out) ==
    IF out = "err" \/ name \notin RoleNames THEN [level |-> 0, err |-> ErrRoles]
    ELSE [level |-> Roles[name], err |-> ErrNone]

\* PostStore.GetByID
PostsGetByID(tbl, id, out) ==
    IF out = "err" THEN [post |-> NilPost, err |-> ErrStore]
    ELSE IF id \in DOMAIN tbl /\ tbl[id].exists
    THEN [post |-> [ID |-> id, UserID |-> tbl[id].UserID, Title |-> tbl[id].Title,
                    Version |-> tbl[id].Version],
          err |-> ErrNone]
    ELSE [post |-> NilPost, err |-> ErrRecordNotFound]

\* One entry of the call log of the backing services: the operation and the outcome
\* the environment gave it.
Call(op, out) == [op |-> op, out |-> out]

GetUserResult(user, err, c, calls) == [user |-> user, err |-> err, cache |-> c, calls |-> calls]

\* Variants of getUser with one slip each.
\* A hit refreshes the entry from the system of record.
getUser_AlwaysFetch(enabled, c, db, userID, cg, sg, cs) ==
    IF ~enabled
    THEN LET f == UsersGetByID(db, userID, sg)
         IN GetUserResult(f.user, f.err, c, <<Call("store.GetByID", sg)>>)
    ELSE LET g == CacheGet(c, userID, cg)
         IN IF g.err # ErrNone
            THEN GetUserResult(NilUser, g.err, c, <<Call("cache.Get", cg)>>)
            ELSE LET f == UsersGetByID(db, userID, sg)
                 IN IF f.err # ErrNone
                    THEN GetUserResult(NilUser, f.err, c,
                                       <<Call("cache.Get", cg), Call("store.GetByID", sg)>>)
                    ELSE LET s == CacheSet(c, f.user, cs)
                         IN IF s.err # ErrNone
                            THEN GetUserResult(NilUser, s.err, s.cache,
                                               <<Call("cache.Get", cg), Call("store.GetByID", sg),
                                                 Call("cache.Set", cs)>>)
                            ELSE GetUserResult(f.user, ErrNone, s.cache,
                                               <<Call("cache.Get", cg), Call("store.GetByID", sg),
                                                 Call("cache.Set", cs)>>)

\* The enabled flag is not consulted.
getUser_IgnoreFlag(enabled, c, db, userID, cg, sg, cs) ==
    LET g == CacheGet(c, userID, cg)
    IN IF g.err # ErrNone
       THEN GetUserResult(NilUser, g.err, c, <<Call("cache.Get", cg)>>)
       ELSE IF g.user = NilUser
       THEN LET f == UsersGetByID(db, userID, sg)
            IN IF f.err # ErrNone
               THEN GetUserResult(NilUser, f.err, c,
                                  <<Call("cache.Get", cg), Call("store.GetByID", sg)>>)
               ELSE LET s == CacheSet(c, f.user, cs)
                    IN IF s.err # ErrNone
                       THEN GetUserResult(NilUser, s.err, s.cache,
                                          <<Call("cache.Get", cg), Call("store.GetByID", sg),
                                            Call("cache.Set", cs)>>)
                       ELSE GetUserResult(f.user, ErrNone, s.cache,
                                          <<Call("cache.Get", cg), Call("store.GetByID", sg),
                                            Call("cache.Set", cs)>>)
       ELSE GetUserResult(g.user, ErrNone, c, <<Call("cache.Get", cg)>>)

\* The cache is written before the fetch error is checked.
getUser_CacheOnError(enabled, c, db, userID, cg, sg, cs) ==
    IF ~enabled
    THEN LET f == UsersGetByID(db, userID, sg)
         IN GetUserResult(f.user, f.err, c, <<Call("store.GetByID", sg)>>)
    ELSE LET g == CacheGet(c, userID, cg)
         IN IF g.err # ErrNone
            THEN GetUserResult(NilUser, g.err, c, <<Call("cache.Get", cg)>>)
            ELSE IF g.user = NilUser
            THEN LET f == UsersGetByID(db, userID, sg)
                     s == CacheSet(c, IF f.err = ErrNone THEN f.user ELSE UserRec(userID, 0), cs)
                 IN IF f.err # ErrNone
                    THEN GetUserResult(NilUser, f.err, s.cache,
                                       <<Call("cache.Get", cg), Call("store.GetByID", sg),
                                         Call("cache.Set", cs)>>)
                    ELSE IF s.err # ErrNone
                    THEN GetUserResult(NilUser, s.err, s.cache,
                                       <<Call("cache.Get", cg), Call("store.GetByID", sg),
                                         Call("cache.Set", cs)>>)
                    ELSE GetUserResult(f.user, ErrNone, s.cache,
                                       <<Call("cache.Get", cg), Call("store.GetByID", sg),
                                         Call("cache.Set", cs)>>)
            ELSE GetUserResult(g.user, ErrNone, c, <<Call("cache.Get", cg)>>)

\* A cache error is taken for a miss, and a failed cache write is ignored.
getUser_ErrAsMiss(enabled, c, db, userID, cg, sg, cs) ==
    IF ~enabled
    THEN LET f == UsersGetByID(db, userID, sg)
         IN GetUserResult(f.user, f.err, c, <<Call("store.GetByID", sg)>>)
    ELSE LET g == CacheGet(c, userID, cg)
         IN IF g.user = NilUser
            THEN LET f == UsersGetByID(db, userID, sg)
                 IN IF f.err # ErrNone
                    THEN GetUserResult(NilUser, f.err, c,
                                       <<Call("cache.Get", cg), Call("store.GetByID", sg)>>)
                    ELSE LET s == CacheSet(c, f.user, cs)
                         IN GetUserResult(f.user, ErrNone, s.cache,
                                          <<Call("cache.Get", cg), Call("store.GetByID", sg),
                                            Call("cache.Set", cs)>>)
            ELSE GetUserResult(g.user, ErrNone, c, <<Call("cache.Get", cg)>>)

\* app.getUser(ctx, userID); cg, sg, cs: outcome of cache Get, store GetByID, cache Set.
getUser(enabled, c, db, userID, cg, sg, cs) ==
    IF ~enabled
    THEN LET f == UsersGetByID(db, userID, sg)
         IN GetUserResult(f.user, f.err, c, <<Call("store.GetByID", sg)>>)
    ELSE LET g == CacheGet(c, userID, cg)
         IN IF g.err # ErrNone
            THEN GetUserResult(NilUser, g.err, c, <<Call("cache.Get", cg)>>)
            ELSE IF g.user = NilUser
            THEN LET f == UsersGetByID(db, userID, sg)
                 IN IF f.err # ErrNone
                    THEN GetUserResult(NilUser, f.err, c,
                                       <<Call("cache.Get", cg), Call("store.GetByID", sg)>>)
                    ELSE LET s == CacheSet(c, f.user, cs)
                         IN IF s.err # ErrNone
                            THEN GetUserResult(NilUser, s.err, s.cache,
                                               <<Call("cache.Get", cg), Call("store.GetByID", sg),
                                                 Call("cache.Set", cs)>>)
                            ELSE GetUserResult(f.user, ErrNone, s.cache,
                                               <<Call("cache.Get", cg), Call("store.GetByID", sg),
                                                 Call("cache.Set", cs)>>)
            ELSE GetUserResult(g.user, ErrNone, c, <<Call("cache.Get", cg)>>)

\* Variant: a strict comparison of the levels.
checkRolePrecedence_Strict(user, requiredRole, out) ==
    LET role == RolesGetByName(requiredRole, out)
    IN IF role.err # ErrNone THEN [allowed |-> FALSE, err |-> role.err]
       ELSE [allowed |-> user.Level > role.level, err |-> ErrNone]

\* checkRolePrecedence: user.Role.Level >= role.Level
checkRolePrecedence(user, requiredRole, out) ==
    LET role == RolesGetByName(requiredRole, out)
    IN IF role.err # ErrNone THEN [allowed |-> FALSE, err |-> role.err]
       ELSE [allowed |-> user.Level >= role.level, err |-> ErrNone]

---------------------------------------------------------------------------
\* The handler chain of a route, outermost first.
RouteNames == {"getUserHandler", "getPostHandler", "updatePostHandler", "deletePostHandler"}

Mount(route) ==
    <<"RateLimiterMiddleware", "AuthTokenMiddleware">> \o
    (IF route = "getUserHandler" THEN <<route>>
     ELSE IF route = "getPostHandler" THEN <<"postsContextMiddleware", route>>
     ELSE <<"postsContextMiddleware", "checkPostOwnership", route>>)

\* The role the route passes to checkPostOwnership.
RequiredRole(route) == IF route = "deletePostHandler" THEN "admin" ELSE "moderator"

\* retryAfter.String()
RetryAfters == {"1s", "2s"}

\* URL parameter postID: digits of an id, or not a number.
PostParams == {[digits |-> TRUE, fits |-> TRUE, val |-> p] : p \in PostIDs}
              \cup {[digits |-> FALSE, fits |-> FALSE, val |-> 0]}

IdleReq ==
    [pc |-> "idle", route |-> "getUserHandler", pos |-> 0,
     gates |-> <<>>, calls |-> <<>>,
     header |-> <<>>, tokenErr |-> FALSE, sub |-> NoSub, subErr |-> FALSE, userID |-> 0,
     resolveErr |-> ErrNone,
     ctxUser |-> NilUser, ctxPost |-> NilPost, roleErr |-> ErrNone,
     status |-> "", retryAfter |-> "", dispatched |-> 0]

\* The handler the request is about to enter.
Current(r) == IF r.pc = "running" THEN Mount(r.route)[r.pos] ELSE "none"

\* Entering a handler of the chain.
Enter(r, name) == [r EXCEPT !.gates = Append(@, name)]

\* next.ServeHTTP(w, r)
ServeNext(r) == [r EXCEPT !.pos = @ + 1]

\* A response helper writes the status, and the handler returns.
Respond(r, status) == [r EXCEPT !.status = status, !.pc = "done"]

\* Variant: the Enabled flag is not consulted.
rateLimiterStep_NoFlag(r, enabled, allow, retryAfter) ==
    IF ~allow
    THEN Respond([r EXCEPT !.calls = Append(@, Call("Allow", retryAfter)),
                           !.retryAfter = retryAfter], RateLimited)
    ELSE ServeNext([r EXCEPT !.calls = Append(@, Call("Allow", "allowed"))])

\* RateLimiterMiddleware
rateLimiterStep(r, enabled, allow, retryAfter) ==
    IF enabled
    THEN IF ~allow
         THEN Respond([r EXCEPT !.calls = Append(@, Call("Allow", retryAfter)),
                                !.retryAfter = retryAfter], RateLimited)
         ELSE ServeNext([r EXCEPT !.calls = Append(@, Call("Allow", "allowed"))])
    ELSE ServeNext(r)

\* Variant: only not-found is answered as unauthorized.
resolveFailureResponse_Internal(err) ==
    IF err = ErrRecordNotFound THEN Unauthorized ELSE Internal

\* AuthTokenMiddleware, "if err != nil" after app.getUser: the response to a failed
\* identity resolution.
resolveFailureResponse(err) == Unauthorized

\* AuthTokenMiddleware; h: the Authorization header, v: what ValidateToken returns,
\* cg, sg, cs: the outcomes of the backing calls app.getUser makes.  The result is
\* the request and the cache as the handler leaves them.
authTokenStep(r, enabled, c, db, h, v, cg, sg, cs) ==
    LET r1 == [r EXCEPT !.header = h]
    IN IF h = <<>> THEN [req |-> Respond(r1, Unauthorized), cache |-> c]
       ELSE IF HeaderMalformed(h) THEN [req |-> Respond(r1, Unauthorized), cache |-> c]
       ELSE IF v.err
       THEN [req |-> Respond([r1 EXCEPT !.tokenErr = TRUE], Unauthorized), cache |-> c]
       ELSE LET p == ParseInt(Sprintf(v.sub))
                r2 == [r1 EXCEPT !.sub = v.sub]
            IN IF p.err
               THEN [req |-> Respond([r2 EXCEPT !.subErr = TRUE], Unauthorized), cache |-> c]
               ELSE LET g == getUser(enabled, c, db, p.val, cg, sg, cs)
                        r3 == [r2 EXCEPT !.userID = p.val, !.calls = @ \o g.calls,
                                         !.resolveErr = g.err]
                    IN IF g.err # ErrNone
                       THEN [req |-> Respond(r3, resolveFailureResponse(g.err)),
                             cache |-> g.cache]
                       ELSE [req |-> ServeNext([r3 EXCEPT !.ctxUser = g.user]),
                             cache |-> g.cache]

\* postsContextMiddleware; param: the postID URL parameter.
postsContextStep(r, tbl, param, out) ==
    LET id == ParseInt(param)
    IN IF id.err THEN Respond(r, BadRequest)
       ELSE LET f == PostsGetByID(tbl, id.val, out)
                r1 == [r EXCEPT !.calls = Append(@, Call("Posts.GetByID", out))]
            IN IF f.err = ErrRecordNotFound THEN Respond(r1, NotFound)
               ELSE IF f.err # ErrNone THEN Respond(r1, Internal)
               ELSE ServeNext([r1 EXCEPT !.ctxPost = f.post])

\* Variant: the return after forbiddenResponse is missing.
checkPostOwnershipStep_NoReturn(r, requiredRole, out) ==
    IF r.ctxPost.UserID = r.ctxUser.ID THEN ServeNext(r)
    ELSE LET p == checkRolePrecedence(r.ctxUser, requiredRole, out)
             r1 == [r EXCEPT !.calls = Append(@, Call("Roles.GetByName", out)),
                          !.roleErr = p.err]
         IN IF p.err # ErrNone THEN Respond(r1, Internal)
            ELSE IF ~p.allowed THEN ServeNext([r1 EXCEPT !.status = Forbidden])
            ELSE ServeNext(r1)

\* Variant: a failed role lookup is answered like an insufficient role.
checkPostOwnershipStep_ErrForbidden(r, requiredRole, out) ==
    IF r.ctxPost.UserID = r.ctxUser.ID THEN ServeNext(r)
    ELSE LET p == checkRolePrecedence(r.ctxUser, requiredRole, out)
             r1 == [r EXCEPT !.calls = Append(@, Call("Roles.GetByName", out)),
                          !.roleErr = p.err]
         IN IF p.err # ErrNone \/ ~p.allowed THEN Respond(r1, Forbidden)
            ELSE ServeNext(r1)

\* Variant: the role is looked up before the ownership is checked.
checkPostOwnershipStep_RoleFirst(r, requiredRole, out) ==
    LET p == checkRolePrecedence(r.ctxUser, requiredRole, out)
        r1 == [r EXCEPT !.calls = Append(@, Call("Roles.GetByName", out)),
                     !.roleErr = p.err]
    IN IF p.err # ErrNone THEN Respond(r1, Internal)
       ELSE IF r.ctxPost.UserID = r.ctxUser.ID \/ p.allowed THEN ServeNext(r1)
       ELSE Respond(r1, Forbidden)

\* checkPostOwnership(requiredRole, next)
checkPostOwnershipStep(r, requiredRole, out) ==
    IF r.ctxPost.UserID = r.ctxUser.ID THEN ServeNext(r)
    ELSE LET p == checkRolePrecedence(r.ctxUser, requiredRole, out)
             r1 == [r EXCEPT !.calls = Append(@, Call("Roles.GetByName", out)),
                          !.roleErr = p.err]
         IN IF p.err # ErrNone THEN Respond(r1, Internal)
            ELSE IF ~p.allowed THEN Respond(r1, Forbidden)
            ELSE ServeNext(r1)

\* Number of calls of op in a call log.
RECURSIVE CountOf(_, _)
CountOf(seq, op) ==
    IF seq = <<>> THEN 0
    ELSE (IF Head(seq).op = op THEN 1 ELSE 0) + CountOf(Tail(seq), op)

---------------------------------------------------------------------------
\* Actions of the request pipeline

NoRow == [exists |-> FALSE, active |-> FALSE, level |-> 0]
NoTx == [op |-> "none", result |-> "none", userID |-> 0]

\* Concurrent callers
Resolvers == 1..MaxResolvers
Editors == 1..MaxRequests

\* One app.getUser call: where it is, the ID it resolves, what it holds and returns.
IdleResolver ==
    [pc |-> "idle", id |-> 0, user |-> NilUser, err |-> ErrNone, status |-> "",
     fetched |-> FALSE, wrote |-> FALSE, late |-> FALSE]

\* One request on a post, served once: the handler it is in, the caller who creates, the
\* *Post it holds, the version it read, the store call it made and its answer.
IdleEditor ==
    [pc |-> "idle", op |-> "", caller |-> 0, post |-> NilPost, read |-> 0,
     call |-> Call("", ""), err |-> ErrNone, status |-> ""]

NoPostRow == [exists |-> FALSE, UserID |-> 0, Title |-> "", Version |-> 0]

SeedUsers ==
    [id \in UserIDs |->
        IF id \in SeedIDs
        THEN [exists |-> TRUE, active |-> TRUE, level |-> id]
        ELSE NoRow]

SeedPosts ==
    [id \in PostIDs |->
        IF id = 1 THEN [exists |-> TRUE, UserID |-> 1, Title |-> "t0", Version |-> 0]
        ELSE IF id = 2 THEN [exists |-> TRUE, UserID |-> 3, Title |-> "t0", Version |-> 0]
        ELSE NoPostRow]

EmptyCache == [id \in UserIDs |-> NilUser]

Init ==
    /\ redisEnabled \in BOOLEAN
    /\ rlEnabled \in BOOLEAN
    /\ users = SeedUsers
    /\ posts = SeedPosts
    /\ cache = EmptyCache
    /\ storeGetCalls = 0
    /\ req = IdleReq
    /\ invitations = {}
    /\ txlog = NoTx
    /\ resolvers = [p \in Resolvers |-> IdleResolver]
    /\ oldEntry = {}
    /\ editors = [e \in Editors |-> IdleEditor]
    /\ now = 0
    /\ spent = {}

\* A request arrives for one of the routes.
NewRequest ==
    /\ req.pc \in {"idle", "done"}
    /\ storeGetCalls < MaxCalls
    /\ \E route \in RouteNames :
         req' = [IdleReq EXCEPT !.pc = "running", !.route = route, !.pos = 1]
    /\ UNCHANGED <<redisEnabled, rlEnabled, users, posts, cache, storeGetCalls,
                   invitations, txlog,
                   resolvers, oldEntry, editors, now, spent>>

RateLimiterMiddleware ==
    /\ Current(req) = "RateLimiterMiddleware"
    /\ \E allow \in BOOLEAN, retryAfter \in RetryAfters :
         req' = rateLimiterStep(Enter(req, "RateLimiterMiddleware"), rlEnabled,
                                allow, retryAfter)
    /\ UNCHANGED <<redisEnabled, rlEnabled, users, posts, cache, storeGetCalls,
                   invitations, txlog,
                   resolvers, oldEntry, editors, now, spent>>

\* What the environment still decides once the header is known: a header that is
\* turned away leads to no ValidateToken call, a rejected token or an unparsable
\* subject to no backing call.
ValidateOutcomesFor(h) ==
    IF h = <<>> \/ HeaderMalformed(h) THEN {[err |-> TRUE, sub |-> NoSub]}
    ELSE ValidateOutcomes

OutcomesFor(v) == IF v.err \/ ParseInt(Sprintf(v.sub)).err THEN {"ok"} ELSE Outcomes

AuthTokenMiddleware ==
    /\ Current(req) = "AuthTokenMiddleware"
    /\ \E h \in Headers :
       \E v \in ValidateOutcomesFor(h) :
       \E cg \in OutcomesFor(v), sg \in OutcomesFor(v), cs \in OutcomesFor(v) :
         LET res == authTokenStep(Enter(req, "AuthTokenMiddleware"), redisEnabled,
                                  cache, users, h, v, cg, sg, cs)
         IN /\ req' = res.req
            /\ cache' = res.cache
            /\ storeGetCalls' = storeGetCalls + CountOf(res.req.calls, "store.GetByID")
    /\ UNCHANGED <<redisEnabled, rlEnabled, users, posts, invitations, txlog,
                   resolvers, oldEntry, editors, now, spent>>

PostsContextMiddleware ==
    /\ Current(req) = "postsContextMiddleware"
    /\ \E param \in PostParams, out \in Outcomes :
         req' = postsContextStep(Enter(req, "postsContextMiddleware"), posts, param, out)
    /\ UNCHANGED <<redisEnabled, rlEnabled, users, posts, cache, storeGetCalls,
                   invitations, txlog,
                   resolvers, oldEntry, editors, now, spent>>

CheckPostOwnership ==
    /\ Current(req) = "checkPostOwnership"
    /\ \E out \in Outcomes :
         req' = checkPostOwnershipStep(Enter(req, "checkPostOwnership"),
                                       RequiredRole(req.route), out)
    /\ UNCHANGED <<redisEnabled, rlEnabled, users, posts, cache, storeGetCalls,
                   invitations, txlog,
                   resolvers, oldEntry, editors, now, spent>>

\* The route's business handler runs and answers.
Handler ==
    /\ Current(req) \in RouteNames
    /\ req' = Respond([Enter(req, req.route) EXCEPT !.dispatched = @ + 1], OK)
    /\ UNCHANGED <<redisEnabled, rlEnabled, users, posts, cache, storeGetCalls,
                   invitations, txlog,
                   resolvers, oldEntry, editors, now, spent>>

\* A cache entry reaches its TTL and is dropped by the cache service.
Expire ==
    /\ \E id \in UserIDs :
         /\ cache[id] # NilUser
         /\ cache' = [cache EXCEPT ![id] = NilUser]
         /\ oldEntry' = oldEntry \ {id}
    /\ UNCHANGED <<redisEnabled, rlEnabled, users, posts, storeGetCalls, req,
                   invitations, txlog,
                   resolvers, editors, now, spent>>

---------------------------------------------------------------------------
\* The user store.  A statement run on s.db takes effect at once, in its own
\* implicit transaction; a statement run on tx takes effect at Commit and is
\* dropped by Rollback.

InviteTokens == {"inviteA", "inviteB"}

\* hex.EncodeToString(sha256.Sum256([]byte(token)))
HashTable == [inviteA |-> "sha256(inviteA)", inviteB |-> "sha256(inviteB)"]
Hash(token) == IF token \in DOMAIN HashTable THEN HashTable[token] ELSE "sha256(other)"

\* The tokens a client may present: one that was mailed, or a stored hash.
ActivateTokens == InviteTokens \cup {Hash("inviteA")}

\* mail.exp, three days: one unit of the clock
InvitationExp == 1

\* The caller of CreateAndInvite draws a new random token for every invitation.
TokenFresh(inv, used, plain) ==
    /\ plain \notin used
    /\ \A i \in inv : i.token # Hash(plain)

\* The *User handed to Create: Role is a pointer, nil unless the caller sets it.
UserInputs == {[roleNil |-> TRUE, roleName |-> ""]}
              \cup {[roleNil |-> FALSE, roleName |-> n] : n \in {"", "admin"}}

\* db.BeginTx: nothing pending.
BeginTx == [users |-> {}, invitations |-> {}]

HasFreeID(tbl) == \E id \in UserIDs : ~tbl[id].exists
\* RETURNING id: the next value of the users id sequence.
NextUserID(tbl) == CHOOSE id \in UserIDs :
                      /\ ~tbl[id].exists
                      /\ \A j \in UserIDs : ~tbl[j].exists => id <= j

\* UserStore.Create(ctx, tx, user): the INSERT runs on s.db, not on tx.
\* user.Role.Name dereferences user.Role: a nil Role panics.
UsersCreate(tbl, tx, user, out) ==
    IF user.roleNil
    THEN [panic |-> TRUE, err |-> ErrNone, users |-> tbl, tx |-> tx, id |-> 0]
    ELSE IF out = "err"
    THEN [panic |-> FALSE, err |-> ErrStore, users |-> tbl, tx |-> tx, id |-> 0]
    ELSE LET role == IF user.roleName = "" THEN "user" ELSE user.roleName
             id == NextUserID(tbl)
         IN [panic |-> FALSE, err |-> ErrNone,
             users |-> [tbl EXCEPT ![id] = [exists |-> TRUE, active |-> FALSE,
                                            level |-> Roles[role]]],
             tx |-> tx, id |-> id]

\* UserStore.createUserInvitation: the INSERT runs on tx; expiry is
\* time.Now().Add(invitationExp).
createUserInvitation(tx, token, invitationExp, userID, t, out) ==
    IF out = "err" THEN [err |-> ErrStore, tx |-> tx]
    ELSE [err |-> ErrNone,
          tx |-> [tx EXCEPT !.invitations =
                      @ \cup {[token |-> token, userID |-> userID,
                               expiry |-> t + invitationExp]}]]

\* UserStore.deleteUserInvitations: DELETE FROM user_invitations WHERE user_id = $1
deleteUserInvitations(inv, userID) == {i \in inv : i.userID # userID}

\* tx.Commit()
CommitInvitations(inv, tx) == inv \cup tx.invitations

\* UserStore.CreateAndInvite, run by withTx: Rollback when the function returns an
\* error, Commit otherwise; a panic leaves the transaction uncommitted.
createAndInvite(tbl, inv, user, token, invitationExp, t, oc, oi) ==
    LET c == UsersCreate(tbl, BeginTx, user, oc)
    IN IF c.panic
       THEN [users |-> c.users, invitations |-> inv,
             log |-> [op |-> "CreateAndInvite", result |-> "panic", userID |-> 0]]
       ELSE IF c.err # ErrNone
       THEN [users |-> c.users, invitations |-> inv,
             log |-> [op |-> "CreateAndInvite", result |-> "rollback", userID |-> 0]]
       ELSE LET i == createUserInvitation(c.tx, token, invitationExp, c.id, t, oi)
            IN IF i.err # ErrNone
               THEN [users |-> c.users, invitations |-> inv,
                     log |-> [op |-> "CreateAndInvite", result |-> "rollback",
                              userID |-> c.id]]
               ELSE [users |-> c.users, invitations |-> CommitInvitations(inv, i.tx),
                     log |-> [op |-> "CreateAndInvite", result |-> "commit",
                              userID |-> c.id]]

CreateAndInvite ==
    /\ HasFreeID(users)
    /\ \E user \in UserInputs, plain \in InviteTokens, oc \in Outcomes, oi \in Outcomes :
         LET res == createAndInvite(users, invitations, user, Hash(plain),
                                    InvitationExp, now, oc, oi)
         IN /\ TokenFresh(invitations, spent, plain)
            /\ (user.roleNil \/ oc = "err") => oi = "ok"
            /\ user.roleNil => oc = "ok"
            /\ users' = res.users
            /\ invitations' = res.invitations
            /\ txlog' = res.log
    /\ UNCHANGED <<redisEnabled, rlEnabled, posts, cache, storeGetCalls, req,
                   resolvers, oldEntry, editors, now, spent>>

\* generateUsers(num): Username and Email only, Role left nil.
SeedUserCount == 100
generateUsers(num) == [i \in 1..num |-> [roleNil |-> TRUE, roleName |-> ""]]

\* Seed: the loop over the generated users inside the transaction tx.
RECURSIVE seedUsers(_, _, _, _)
seedUsers(tbl, list, i, out) ==
    IF i > Len(list)
    THEN [users |-> tbl, log |-> [op |-> "Seed", result |-> "commit", userID |-> 0]]
    ELSE LET c == UsersCreate(tbl, BeginTx, list[i], out)
         IN IF c.panic
            THEN [users |-> c.users,
                  log |-> [op |-> "Seed", result |-> "panic", userID |-> 0]]
            ELSE IF c.err # ErrNone
            THEN [users |-> c.users,
                  log |-> [op |-> "Seed", result |-> "rollback", userID |-> 0]]
            ELSE seedUsers(c.users, list, i + 1, out)

Seed ==
    /\ HasFreeID(users)
    /\ \E out \in Outcomes :
         LET res == seedUsers(users, generateUsers(SeedUserCount), 1, out)
         IN /\ users' = res.users
            /\ txlog' = res.log
    /\ UNCHANGED <<redisEnabled, rlEnabled, posts, cache, storeGetCalls, req, invitations,
                   resolvers, oldEntry, editors, now, spent>>

---------------------------------------------------------------------------
\* Concurrent identity resolution.  Each request runs app.getUser in its own
\* goroutine; the cache Get, the store GetByID and the cache Set of one call are
\* separate round trips, and the calls of other requests interleave with them.

\* The IDs the concurrent requests resolve: a seeded user and an ID with no row.
ResolveTargets == {1, Cardinality(SeedIDs) + 1}

\* getUser returns (user, err); AuthTokenMiddleware answers an error.
Return(r, user, err) ==
    [r EXCEPT !.pc = "done", !.user = user, !.err = err,
              !.status = IF err # ErrNone THEN resolveFailureResponse(err) ELSE ""]

\* getUser is entered: the first backing call depends on redisCfg.enabled.
getUserEnter(enabled, userID, late) ==
    [IdleResolver EXCEPT !.pc = IF enabled THEN "cache.Get" ELSE "store.GetByID",
                         !.id = userID, !.late = late]

\* user, err := app.cacheStorage.Users.Get(ctx, userID)
getUserCacheGet(r, c, cg) ==
    LET g == CacheGet(c, r.id, cg)
    IN IF g.err # ErrNone THEN Return(r, NilUser, g.err)
       ELSE IF g.user = NilUser THEN [r EXCEPT !.pc = "store.GetByID"]
       ELSE Return(r, g.user, ErrNone)

\* user, err = app.store.Users.GetByID(ctx, userID), on a miss or with the cache off
getUserStoreGet(r, enabled, db, sg) ==
    LET f == UsersGetByID(db, r.id, sg)
    IN IF ~enabled THEN Return([r EXCEPT !.fetched = TRUE], f.user, f.err)
       ELSE IF f.err # ErrNone THEN Return([r EXCEPT !.fetched = TRUE], NilUser, f.err)
       ELSE [r EXCEPT !.pc = "cache.Set", !.user = f.user, !.fetched = TRUE]

\* Variant: the record written and returned is not the one that was fetched.
getUserCacheSet_Other(r, c, cs) ==
    LET other == UserRec(r.user.ID, 0)
        s == CacheSet(c, other, cs)
    IN IF s.err # ErrNone
       THEN [resolver |-> Return(r, NilUser, s.err), cache |-> s.cache]
       ELSE [resolver |-> Return([r EXCEPT !.wrote = TRUE], other, ErrNone),
             cache |-> s.cache]

\* err = app.cacheStorage.Users.Set(ctx, user)
getUserCacheSet(r, c, cs) ==
    LET s == CacheSet(c, r.user, cs)
    IN IF s.err # ErrNone
       THEN [resolver |-> Return(r, NilUser, s.err), cache |-> s.cache]
       ELSE [resolver |-> Return([r EXCEPT !.wrote = TRUE], r.user, ErrNone),
             cache |-> s.cache]

\* The user id was deleted and no entry of the time of the deletion is left.
DeletedAndExpired(id) == id \in SeedIDs /\ ~users[id].exists /\ id \notin oldEntry

ResolveEnter(p) ==
    /\ resolvers[p].pc \in {"idle", "done"}
    /\ \E id \in ResolveTargets :
         resolvers' = [resolvers EXCEPT ![p] =
                          getUserEnter(redisEnabled, id, DeletedAndExpired(id))]
    /\ UNCHANGED <<redisEnabled, rlEnabled, users, posts, cache, storeGetCalls, req,
                   invitations, txlog, oldEntry, editors, now, spent>>

ResolveCacheGet(p) ==
    /\ resolvers[p].pc = "cache.Get"
    /\ \E cg \in Outcomes :
         resolvers' = [resolvers EXCEPT ![p] = getUserCacheGet(resolvers[p], cache, cg)]
    /\ UNCHANGED <<redisEnabled, rlEnabled, users, posts, cache, storeGetCalls, req,
                   invitations, txlog, oldEntry, editors, now, spent>>

ResolveStoreGet(p) ==
    /\ resolvers[p].pc = "store.GetByID"
    /\ \E sg \in Outcomes :
         resolvers' = [resolvers EXCEPT ![p] =
                          getUserStoreGet(resolvers[p], redisEnabled, users, sg)]
    /\ UNCHANGED <<redisEnabled, rlEnabled, users, posts, cache, storeGetCalls, req,
                   invitations, txlog, oldEntry, editors, now, spent>>

ResolveCacheSet(p) ==
    /\ resolvers[p].pc = "cache.Set"
    /\ \E cs \in Outcomes :
         LET res == getUserCacheSet(resolvers[p], cache, cs)
         IN /\ resolvers' = [resolvers EXCEPT ![p] = res.resolver]
            /\ cache' = res.cache
    /\ UNCHANGED <<redisEnabled, rlEnabled, users, posts, storeGetCalls, req,
                   invitations, txlog, oldEntry, editors, now, spent>>

\* UserStore.Delete, run by withTx: both DELETEs run on tx.
UsersDelete(tbl, inv, id, od, oi) ==
    IF od = "err" \/ oi = "err"
    THEN [users |-> tbl, invitations |-> inv,
          log |-> [op |-> "Delete", result |-> "rollback", userID |-> id]]
    ELSE [users |-> [tbl EXCEPT ![id] = NoRow],
          invitations |-> deleteUserInvitations(inv, id),
          log |-> [op |-> "Delete", result |-> "commit", userID |-> id]]

DeleteUser ==
    /\ \E id \in ResolveTargets, od \in Outcomes, oi \in Outcomes :
         LET res == UsersDelete(users, invitations, id, od, oi)
         IN /\ users[id].exists
            /\ users' = res.users
            /\ invitations' = res.invitations
            /\ txlog' = res.log
            /\ oldEntry' = IF res.log.result = "commit" /\ cache[id] # NilUser
                           THEN oldEntry \cup {id} ELSE oldEntry
    /\ UNCHANGED <<redisEnabled, rlEnabled, posts, cache, storeGetCalls, req,
                   resolvers, editors, now, spent>>

NextResolve ==
    \/ \E p \in Resolvers : ResolveEnter(p)
    \/ \E p \in Resolvers : ResolveCacheGet(p)
    \/ \E p \in Resolvers : ResolveStoreGet(p)
    \/ \E p \in Resolvers : ResolveCacheSet(p)
    \/ DeleteUser
    \/ Expire

SpecResolve == Init /\ [][NextResolve]_vars

---------------------------------------------------------------------------
\* The post store and the handlers that write it.  Title stands for the two
\* text columns title and content, which the code treats alike.

\* *payload.Title; "" is the nil pointer.
Titles == {"", "t1"}

HasFreePostID(tbl) == \E id \in PostIDs : ~tbl[id].exists
\* RETURNING id: the next value of the posts id sequence.
NextPostID(tbl) == CHOOSE id \in PostIDs :
                      /\ ~tbl[id].exists
                      /\ \A j \in PostIDs : ~tbl[j].exists => id <= j

\* PostStore.Create: INSERT ... RETURNING id; version takes the column default.
PostsCreate(tbl, post, out) ==
    IF out = "err" THEN [posts |-> tbl, post |-> post, err |-> ErrStore]
    ELSE LET id == NextPostID(tbl)
         IN [posts |-> [tbl EXCEPT ![id] = [exists |-> TRUE, UserID |-> post.UserID,
                                           Title |-> post.Title, Version |-> 0]],
             post |-> [post EXCEPT !.ID = id],
             err |-> ErrNone]

\* Variant: the WHERE clause does not compare the version.
PostsUpdate_AnyVersion(tbl, post, out) ==
    IF out = "err" THEN [posts |-> tbl, post |-> post, err |-> ErrStore]
    ELSE IF tbl[post.ID].exists
    THEN [posts |-> [tbl EXCEPT ![post.ID].Title = post.Title,
                                ![post.ID].Version = @ + 1],
          post |-> [post EXCEPT !.Version = tbl[post.ID].Version + 1],
          err |-> ErrNone]
    ELSE [posts |-> tbl, post |-> post, err |-> ErrRecordNotFound]

\* PostStore.Update: UPDATE ... SET version = version + 1
\* WHERE id = $3 AND version = $4 RETURNING version
PostsUpdate(tbl, post, out) ==
    IF out = "err" THEN [posts |-> tbl, post |-> post, err |-> ErrStore]
    ELSE IF tbl[post.ID].exists /\ tbl[post.ID].Version = post.Version
    THEN [posts |-> [tbl EXCEPT ![post.ID].Title = post.Title,
                                ![post.ID].Version = @ + 1],
          post |-> [post EXCEPT !.Version = tbl[post.ID].Version + 1],
          err |-> ErrNone]
    ELSE [posts |-> tbl, post |-> post, err |-> ErrRecordNotFound]

\* postsContextMiddleware of a PATCH request: the post is read into the context.
loadPostStep(tbl, id, out) ==
    LET f == PostsGetByID(tbl, id, out)
        ed == [IdleEditor EXCEPT !.op = "update",
                                 !.call = Call("Posts.GetByID", out), !.err = f.err]
    IN IF f.err = ErrRecordNotFound THEN [ed EXCEPT !.pc = "done", !.status = NotFound]
       ELSE IF f.err # ErrNone THEN [ed EXCEPT !.pc = "done", !.status = Internal]
       ELSE [ed EXCEPT !.pc = "loaded", !.post = f.post, !.read = f.post.Version]

\* updatePostHandler
updatePostStep(ed, tbl, valid, title, out) ==
    IF ~valid THEN [editor |-> [ed EXCEPT !.pc = "done", !.status = BadRequest],
                    posts |-> tbl]
    ELSE LET post == IF title # "" THEN [ed.post EXCEPT !.Title = title] ELSE ed.post
             u == PostsUpdate(tbl, post, out)
             ed1 == [ed EXCEPT !.pc = "done", !.post = u.post, !.err = u.err,
                               !.call = Call("Posts.Update", out)]
         IN IF u.err # ErrNone
            THEN [editor |-> [ed1 EXCEPT !.status = Internal], posts |-> u.posts]
            ELSE [editor |-> [ed1 EXCEPT !.status = OK], posts |-> u.posts]

\* createPostHandler
createPostStep(caller, tbl, valid, title, out) ==
    LET ed == [IdleEditor EXCEPT !.pc = "done", !.op = "create", !.caller = caller]
    IN IF ~valid THEN [editor |-> [ed EXCEPT !.status = BadRequest], posts |-> tbl]
       ELSE LET post == [NilPost EXCEPT !.Title = title, !.UserID = 2]
                c == PostsCreate(tbl, post, out)
                ed1 == [ed EXCEPT !.post = c.post, !.err = c.err,
                                  !.call = Call("Posts.Create", out)]
            IN IF c.err # ErrNone
               THEN [editor |-> [ed1 EXCEPT !.status = Internal], posts |-> c.posts]
               ELSE [editor |-> [ed1 EXCEPT !.status = Created], posts |-> c.posts]

LoadPost(e) ==
    /\ editors[e].pc = "idle"
    /\ \E id \in PostIDs, out \in Outcomes :
         editors' = [editors EXCEPT ![e] = loadPostStep(posts, id, out)]
    /\ UNCHANGED <<redisEnabled, rlEnabled, users, posts, cache, storeGetCalls, req,
                   invitations, txlog, resolvers, oldEntry, now, spent>>

UpdatePost(e) ==
    /\ editors[e].pc = "loaded"
    /\ \E valid \in BOOLEAN, title \in Titles, out \in Outcomes :
         LET res == updatePostStep(editors[e], posts, valid, title, out)
         IN /\ editors' = [editors EXCEPT ![e] = res.editor]
            /\ posts' = res.posts
    /\ UNCHANGED <<redisEnabled, rlEnabled, users, cache, storeGetCalls, req,
                   invitations, txlog, resolvers, oldEntry, now, spent>>

CreatePost(e) ==
    /\ editors[e].pc = "idle"
    /\ HasFreePostID(posts)
    /\ \E caller \in SeedIDs, valid \in BOOLEAN, title \in Titles \ {""},
          out \in Outcomes :
         LET res == createPostStep(caller, posts, valid, title, out)
         IN /\ editors' = [editors EXCEPT ![e] = res.editor]
            /\ posts' = res.posts
    /\ UNCHANGED <<redisEnabled, rlEnabled, users, cache, storeGetCalls, req,
                   invitations, txlog, resolvers, oldEntry, now, spent>>

NextPosts ==
    \/ \E e \in Editors : LoadPost(e)
    \/ \E e \in Editors : UpdatePost(e)
    \/ \E e \in Editors : CreatePost(e)

SpecPosts == Init /\ [][NextPosts]_vars

\* Variant: the expiry of the invitation is not compared.
getUserFromInvitation_NoExpiry(tbl, inv, token, exp, out) ==
    LET rows == {i \in inv : /\ i.token = Hash(token)
                             /\ tbl[i.userID].exists}
    IN IF out = "err" THEN [userID |-> 0, err |-> ErrStore]
       ELSE IF rows = {} THEN [userID |-> 0, err |-> ErrRecordNotFound]
       ELSE [userID |-> (CHOOSE i \in rows : TRUE).userID, err |-> ErrNone]

\* UserStore.getUserFromInvitation(ctx, tx, token, exp): the user joined to the
\* invitation whose token is the hash and whose expiry is after exp.
getUserFromInvitation(tbl, inv, token, exp, out) ==
    LET rows == {i \in inv : /\ i.token = Hash(token)
                             /\ i.expiry > exp
                             /\ tbl[i.userID].exists}
    IN IF out = "err" THEN [userID |-> 0, err |-> ErrStore]
       ELSE IF rows = {} THEN [userID |-> 0, err |-> ErrRecordNotFound]
       ELSE [userID |-> (CHOOSE i \in rows : TRUE).userID, err |-> ErrNone]

ActivateLog(result, userID, token, err, env) ==
    [op |-> "Activate", result |-> result, userID |-> userID, token |-> token,
     err |-> err, env |-> env]

\* UserStore.Activate, run by withTx: the three statements run on tx, which is
\* committed when all succeed and rolled back at the first error.
activate(tbl, inv, token, t, og, ou, od) ==
    LET g == getUserFromInvitation(tbl, inv, token, t, og)
    IN IF g.err # ErrNone
       THEN [users |-> tbl, invitations |-> inv,
             log |-> ActivateLog("rollback", 0, token, g.err, og)]
       ELSE IF ou = "err" \/ od = "err"
       THEN [users |-> tbl, invitations |-> inv,
             log |-> ActivateLog("rollback", g.userID, token, ErrStore, "err")]
       ELSE [users |-> [tbl EXCEPT ![g.userID].active = TRUE],
             invitations |-> deleteUserInvitations(inv, g.userID),
             log |-> ActivateLog("commit", g.userID, token, ErrNone, "ok")]

Activate ==
    /\ \E token \in ActivateTokens, og \in Outcomes, ou \in Outcomes, od \in Outcomes :
         LET res == activate(users, invitations, token, now, og, ou, od)
         IN /\ og = "err" => ou = "ok"
            /\ ou = "err" => od = "ok"
            /\ users' = res.users
            /\ invitations' = res.invitations
            /\ txlog' = res.log
            /\ spent' = IF res.log.result = "commit" THEN spent \cup {token} ELSE spent
    /\ UNCHANGED <<redisEnabled, rlEnabled, posts, cache, storeGetCalls, req,
                   resolvers, oldEntry, editors, now>>

\* time.Now() moves on.
Tick ==
    /\ now < MaxTime
    /\ now' = now + 1
    /\ UNCHANGED <<redisEnabled, rlEnabled, users, posts, cache, storeGetCalls, req,
                   invitations, txlog, resolvers, oldEntry, editors, spent>>

NextStore ==
    \/ CreateAndInvite
    \/ Seed
    \/ Activate
    \/ Tick

SpecStore == Init /\ [][NextStore]_vars

Next ==
    \/ NewRequest
    \/ RateLimiterMiddleware
    \/ AuthTokenMiddleware
    \/ PostsContextMiddleware
    \/ CheckPostOwnership
    \/ Handler
    \/ Expire

Spec == Init /\ [][Next]_vars

---------------------------------------------------------------------------
\* Properties

\* The handler name has run for the current request.
Ran(name) == \E i \in 1..Len(req.gates) : req.gates[i] = name

\* The handler name has run and has called next.ServeHTTP.
NextInvoked(name) ==
    \E i \in 1..Len(req.gates) :
        req.gates[i] = name /\ (i < Len(req.gates) \/ req.pos > i)

\* This step is the run of AuthTokenMiddleware.
AuthStep == req'.gates = Append(req.gates, "AuthTokenMiddleware")

\* The backing calls the step added to the call log.
Added == SubSeq(req'.calls, Len(req.calls) + 1, Len(req'.calls))

\* C1: a request whose Authorization header is absent or is not exactly "Bearer"
\* and one more space-separated part, whose token ValidateToken rejects, whose
\* subject claim does not parse as a 64-bit integer, or whose subject Resolve
\* reports as not found, ends as Unauthorized (401), and AuthTokenMiddleware never
\* invokes the next handler for it.
C1_Unauthenticated ==
    ( /\ Ran("AuthTokenMiddleware")
      /\ \/ req.header = <<>>
         \/ Len(Split(req.header)) # 2
         \/ Split(req.header)[1] # <<"Bearer">>
         \/ req.tokenErr
         \/ req.sub.kind \in {"string", "huge"}
         \/ req.resolveErr = ErrRecordNotFound )
    => /\ req.status = Unauthorized
       /\ req.pc = "done"
       /\ ~NextInvoked("AuthTokenMiddleware")
       /\ req.dispatched = 0

C1_Witness ==
    /\ Ran("AuthTokenMiddleware")
    /\ Len(Split(req.header)) = 2
    /\ req.resolveErr = ErrRecordNotFound
    /\ req.status = Unauthorized

\* C2: when the role lookup does not fail, checkPostOwnership invokes the wrapped
\* handler if and only if the caller owns the post or the caller's role level is at
\* least the required role's level; otherwise the request ends as Forbidden (403).
C2_Authorized ==
    req.ctxUser.ID = req.ctxPost.UserID
    \/ req.ctxUser.Level >= Roles[RequiredRole(req.route)]

C2_OwnershipOrRole ==
    (Ran("checkPostOwnership") /\ req.roleErr = ErrNone)
    => /\ NextInvoked("checkPostOwnership") <=> C2_Authorized
       /\ ~C2_Authorized => (req.status = Forbidden /\ req.pc = "done" /\ req.dispatched = 0)

C2_Witness ==
    /\ Ran("checkPostOwnership")
    /\ req.ctxUser.ID = req.ctxPost.UserID
    /\ req.ctxUser.Level < Roles[RequiredRole(req.route)]
    /\ req.dispatched = 1

\* C3: with caching enabled, a Resolve queries the cache first; on a miss it fetches
\* from the system of record and writes the fetched record to the cache; while the
\* entry is present a Resolve returns the cached record and does not fetch (the
\* GetByID call count stays as it was).
C3_Step ==
    (redisEnabled /\ AuthStep /\ Added # <<>>)
    => LET u == req'.userID
       IN /\ Added[1].op = "cache.Get"
          /\ (cache[u] # NilUser /\ Added[1].out = "ok")
             => /\ Added = <<Call("cache.Get", "ok")>>
                /\ storeGetCalls' = storeGetCalls
                /\ req'.ctxUser = cache[u]
                /\ cache' = cache
          /\ (cache[u] = NilUser /\ Added[1].out = "ok")
             => /\ Len(Added) >= 2
                /\ Added[2].op = "store.GetByID"
                /\ storeGetCalls' = storeGetCalls + 1
                /\ (Added[2].out = "ok" /\ users[u].exists /\ users[u].active)
                   => /\ Len(Added) = 3
                      /\ Added[3].op = "cache.Set"
                      /\ Added[3].out = "ok"
                         => /\ cache'[u] = UserRec(u, users[u].level)
                            /\ req'.ctxUser = cache'[u]

C3_CacheAside == [][C3_Step]_vars

\* A second Resolve was served from the cache after one fetch.
C3_Witness ==
    /\ redisEnabled
    /\ Ran("AuthTokenMiddleware")
    /\ req.ctxUser # NilUser
    /\ CountOf(req.calls, "cache.Get") = 1
    /\ CountOf(req.calls, "store.GetByID") = 0
    /\ storeGetCalls = 1

\* The step reached app.getUser: the header, the token and the subject were accepted.
ResolveStep == AuthStep /\ req'.sub # NoSub /\ ~req'.subErr

\* C4: with caching disabled, Resolve never calls the cache backend (neither Get nor
\* Set), leaves the cache as it is, and reads the system of record on every call.
C4_Step ==
    (~redisEnabled /\ AuthStep)
    => /\ cache' = cache
       /\ CountOf(Added, "cache.Get") = 0
       /\ CountOf(Added, "cache.Set") = 0
       /\ ResolveStep
          => /\ Len(Added) = 1
             /\ Added[1].op = "store.GetByID"
             /\ storeGetCalls' = storeGetCalls + 1

C4_CacheBypassed == [][C4_Step]_vars

\* Two Resolves in a row went to the system of record with caching disabled.
C4_Witness ==
    /\ ~redisEnabled
    /\ Ran("AuthTokenMiddleware")
    /\ req.ctxUser # NilUser
    /\ CountOf(req.calls, "store.GetByID") = 1
    /\ storeGetCalls = 2

\* C5: with caching enabled, a Resolve whose fetch from the system of record
\* reports not-found or fails returns that error and does not write the cache; an
\* entry for an ID appears in the cache only by a successful read of that ID.
C5_Step ==
    /\ (redisEnabled /\ ResolveStep /\ CountOf(Added, "store.GetByID") = 1
        /\ (Added[2].out = "err" \/ ~users[req'.userID].exists \/ ~users[req'.userID].active))
       => /\ cache' = cache
          /\ CountOf(Added, "cache.Set") = 0
          /\ req'.resolveErr = (IF Added[2].out = "err" THEN ErrStore ELSE ErrRecordNotFound)
          /\ req'.ctxUser = NilUser
    /\ \A u \in UserIDs :
         (cache'[u] # cache[u] /\ cache'[u] # NilUser)
         => /\ ResolveStep
            /\ req'.userID = u
            /\ Call("store.GetByID", "ok") \in {Added[i] : i \in 1..Len(Added)}
            /\ users[u].exists /\ users[u].active
            /\ cache'[u] = UserRec(u, users[u].level)

C5_OnlySuccessfulReadsCached == [][C5_Step]_vars

C5_Witness ==
    /\ redisEnabled
    /\ Ran("AuthTokenMiddleware")
    /\ req.resolveErr = ErrRecordNotFound
    /\ CountOf(req.calls, "store.GetByID") = 1
    /\ cache[req.userID] = NilUser

\* C6: with caching enabled, a cache Get error is returned by Resolve without a
\* query of the system of record and without a cache write (it is not a miss); a
\* failed cache Set after a successful fetch makes Resolve return the error and no
\* identity.
C6_Step ==
    (redisEnabled /\ ResolveStep)
    => /\ Added # <<>>
       /\ Added[1] = Call("cache.Get", "err")
          => /\ Len(Added) = 1
             /\ storeGetCalls' = storeGetCalls
             /\ cache' = cache
             /\ req'.resolveErr = ErrCacheGet
             /\ req'.ctxUser = NilUser
             /\ req'.pc = "done"
       /\ Call("cache.Set", "err") \in {Added[i] : i \in 1..Len(Added)}
          => /\ req'.resolveErr = ErrCacheSet
             /\ req'.ctxUser = NilUser
             /\ req'.pc = "done"

C6_CacheErrorsPropagate == [][C6_Step]_vars

C6_Witness ==
    /\ redisEnabled
    /\ Ran("AuthTokenMiddleware")
    /\ req.calls # <<>>
    /\ req.calls[Len(req.calls)] = Call("cache.Set", "err")
    /\ req.resolveErr = ErrCacheSet
    /\ req.pc = "done"

InfrastructureErrors == {ErrCacheGet, ErrCacheSet, ErrStore}

\* C7 as stated: a request whose identity resolution fails on the cache or on the
\* system of record (not not-found) ends as Internal (500), not Unauthorized.
C7_Original ==
    (Ran("AuthTokenMiddleware") /\ req.resolveErr \in InfrastructureErrors)
    => req.status = Internal

\* C7 as amended: a request whose identity resolution fails on the cache or on the
\* system of record ends as Unauthorized (401), as one whose identity is not found
\* does; AuthTokenMiddleware never answers Internal, and the next handler is not
\* invoked.
C7_InfrastructureUnauthorized ==
    /\ (Ran("AuthTokenMiddleware") /\ req.resolveErr \in InfrastructureErrors)
       => /\ req.status = Unauthorized
          /\ req.pc = "done"
          /\ ~NextInvoked("AuthTokenMiddleware")
    /\ (req.status = Internal) => NextInvoked("AuthTokenMiddleware")

C7_Witness ==
    /\ Ran("AuthTokenMiddleware")
    /\ req.resolveErr = ErrStore
    /\ req.status = Unauthorized

\* C8: RateLimiterMiddleware invokes the next handler if and only if rate limiting
\* is disabled or Allow returned allowed; when disabled, Allow is not called; when
\* Allow denies, the request ends as RateLimited (429) carrying the retry-after
\* hint and the next handler is never invoked.
C8_Admission ==
    Ran("RateLimiterMiddleware")
    => /\ ~rlEnabled
          => /\ CountOf(req.calls, "Allow") = 0
             /\ NextInvoked("RateLimiterMiddleware")
       /\ rlEnabled
          => /\ CountOf(req.calls, "Allow") = 1
             /\ req.calls[1].op = "Allow"
             /\ NextInvoked("RateLimiterMiddleware") <=> req.calls[1].out = "allowed"
             /\ req.calls[1].out # "allowed"
                => /\ req.status = RateLimited
                   /\ req.retryAfter = req.calls[1].out
                   /\ req.retryAfter \in RetryAfters
                   /\ req.pc = "done"
                   /\ req.gates = <<"RateLimiterMiddleware">>
                   /\ req.dispatched = 0

C8_Witness ==
    /\ rlEnabled
    /\ req.status = RateLimited
    /\ req.retryAfter = "2s"
    /\ req.gates = <<"RateLimiterMiddleware">>

Rejections == {Unauthorized, Forbidden, RateLimited, Internal, BadRequest, NotFound}

\* The gates a dispatched request of the route has passed, in order.
C9_GatesBefore(route) ==
    <<"RateLimiterMiddleware", "AuthTokenMiddleware">> \o
    (IF route = "getUserHandler" THEN <<>>
     ELSE IF route = "getPostHandler" THEN <<"postsContextMiddleware">>
     ELSE <<"postsContextMiddleware", "checkPostOwnership">>)

C9_State ==
    /\ req.dispatched <= 1
    /\ req.dispatched = 1
       => /\ req.gates = Append(C9_GatesBefore(req.route), req.route)
          /\ rlEnabled => req.calls[1] = Call("Allow", "allowed")
          /\ Len(Split(req.header)) = 2 /\ Split(req.header)[1] = <<"Bearer">>
          /\ ~req.tokenErr /\ req.resolveErr = ErrNone
          /\ req.ctxUser # NilUser /\ req.ctxUser.ID = req.userID
          /\ Ran("checkPostOwnership")
             => (req.roleErr = ErrNone /\ C2_Authorized)
    /\ req.status \in Rejections
       => /\ req.pc = "done"
          /\ req.dispatched = 0
          /\ \A i \in 1..Len(req.gates) : req.gates[i] \notin RouteNames

\* Once a request is answered, nothing more runs for it.
C9_Step ==
    req.pc = "done"
    => \/ req' = req
       \/ req'.gates = <<>> /\ req'.status = "" /\ req'.dispatched = 0

\* C9: a request is dispatched to its business handler at most once, and only after
\* it passed, in this order, the admission gate, the authentication gate, identity
\* resolution with the identity attached to the request context, and on
\* owner-protected routes the ownership-or-role gate; once a request is rejected
\* at a gate, no later gate and no handler runs for it.
C9_PipelineOrder == []C9_State /\ [][C9_Step]_vars

C9_Witness ==
    /\ req.dispatched = 1
    /\ req.route = "deletePostHandler"
    /\ rlEnabled
    /\ req.ctxUser.ID # req.ctxPost.UserID

\* C10: CreateAndInvite is all-or-nothing: when the invitation is not created or
\* the transaction is rolled back, no user row created by that call remains, and a
\* user created by CreateAndInvite that is not yet active has its invitation.
C10_AllOrNothing ==
    /\ (txlog.op = "CreateAndInvite" /\ txlog.result = "rollback" /\ txlog.userID # 0)
       => ~users[txlog.userID].exists
    /\ \A id \in UserIDs \ SeedIDs :
         (users[id].exists /\ ~users[id].active)
         => \E inv \in invitations : inv.userID = id

\* C11: in checkPostOwnership, when the caller is not the owner and the role lookup
\* (Roles.GetByName) fails, the request ends as Internal (500), never as Forbidden
\* (403), and the wrapped handler is not invoked.
C11_RoleLookupFailure ==
    ( /\ Ran("checkPostOwnership")
      /\ req.ctxUser.ID # req.ctxPost.UserID
      /\ Call("Roles.GetByName", "err") \in {req.calls[i] : i \in 1..Len(req.calls)} )
    => /\ req.status = Internal
       /\ req.pc = "done"
       /\ ~NextInvoked("checkPostOwnership")
       /\ req.dispatched = 0

\* The lookup failed for a caller whose level would not have sufficed.
C11_Witness ==
    /\ Ran("checkPostOwnership")
    /\ req.ctxUser.ID # req.ctxPost.UserID
    /\ req.ctxUser.Level < Roles[RequiredRole(req.route)]
    /\ req.calls[Len(req.calls)] = Call("Roles.GetByName", "err")
    /\ req.status = Internal

\* C12: in checkPostOwnership the ownership is checked before the role: for the
\* owner the wrapped handler is invoked and no role lookup is issued, whatever the
\* lookup would have returned.
C12_OwnerShortCircuit ==
    (Ran("checkPostOwnership") /\ req.ctxUser.ID = req.ctxPost.UserID)
    => /\ CountOf(req.calls, "Roles.GetByName") = 0
       /\ req.roleErr = ErrNone
       /\ NextInvoked("checkPostOwnership")
       /\ req.status \notin {Forbidden, Internal}

C12_Witness ==
    /\ req.route = "deletePostHandler"
    /\ req.ctxUser.ID = req.ctxPost.UserID
    /\ req.ctxUser.Level < Roles["admin"]
    /\ CountOf(req.calls, "Roles.GetByName") = 0
    /\ req.dispatched = 1

\* A step in which a getUser call writes the record it fetched to the cache.
SetStep(p) == resolvers[p].pc = "cache.Set" /\ resolvers'[p].wrote

\* While the user is unchanged in the system of record, the cache holds nothing
\* or its record, and every call that returned a user returned that record.
C13_State ==
    \A id \in ResolveTargets :
        users[id].exists =>
            LET rec == UserRec(id, users[id].level)
            IN /\ cache[id] \in {NilUser, rec}
               /\ \A p \in Resolvers :
                    ( /\ resolvers[p].pc = "done"
                      /\ resolvers[p].id = id
                      /\ resolvers[p].err = ErrNone ) => resolvers[p].user = rec

\* Each write of an unchanged user leaves exactly its record in the cache and
\* returns it; a second write of the same record changes nothing.
C13_Step ==
    \A p \in Resolvers :
        (SetStep(p) /\ users[resolvers[p].id].exists) =>
            LET id == resolvers[p].id
                rec == UserRec(id, users[id].level)
            IN /\ cache'[id] = rec
               /\ resolvers'[p].user = rec
               /\ resolvers'[p].err = ErrNone
               /\ cache[id] = rec => cache' = cache
               /\ \A other \in UserIDs \ {id} : cache'[other] = cache[other]

\* C13: with caching enabled and the identity unchanged in the system of record,
\* under every interleaving of concurrent getUser calls for the same ID that miss
\* the cache, each call fetches and writes on its own, every call returns the
\* system-of-record identity, and the cache ends holding exactly that record:
\* a duplicate write is idempotent.
C13_ConcurrentMisses == []C13_State /\ [][C13_Step]_vars

\* Two calls for the same ID both missed, fetched and wrote, and have returned.
C13_Witness ==
    \E p, q \in Resolvers :
        /\ p # q
        /\ redisEnabled
        /\ resolvers[p].id = resolvers[q].id
        /\ \A x \in {p, q} :
             /\ resolvers[x].pc = "done"
             /\ resolvers[x].fetched /\ resolvers[x].wrote
             /\ resolvers[x].err = ErrNone
        /\ users[resolvers[p].id].exists
        /\ cache[resolvers[p].id] = UserRec(resolvers[p].id, users[resolvers[p].id].level)
        /\ resolvers[p].user = cache[resolvers[p].id]
        /\ resolvers[q].user = cache[resolvers[p].id]

\* C14: once a user has been deleted from the system of record and every cache
\* entry for it that was there at the deletion has expired, every getUser call
\* entered later returns not-found and the request is answered 401, whatever the
\* interleaving with concurrent calls.
C14_StalenessBounded ==
    \A p \in Resolvers :
        ( /\ resolvers[p].pc = "done"
          /\ resolvers[p].late
          /\ resolvers[p].err \notin InfrastructureErrors )
        => /\ resolvers[p].err = ErrRecordNotFound
           /\ resolvers[p].status = Unauthorized

\* Editor e runs PostStore.Update in this step and the database answers.
UpdateCall(e) ==
    /\ editors[e].pc = "loaded"
    /\ editors'[e].pc = "done"
    /\ editors'[e].call = Call("Posts.Update", "ok")

\* Of the requests that read the same version of a post, at most one has updated it.
C15_State ==
    \A e, f \in Editors :
        ( /\ e # f
          /\ editors[e].pc = "done" /\ editors[f].pc = "done"
          /\ editors[e].call.op = "Posts.Update" /\ editors[f].call.op = "Posts.Update"
          /\ editors[e].post.ID = editors[f].post.ID
          /\ editors[e].read = editors[f].read )
        => ~(editors[e].err = ErrNone /\ editors[f].err = ErrNone)

\* A post changes only by an update based on its stored version, which adds 1 to
\* the version; an update based on another version returns ErrRecordNotFound and
\* changes nothing; the version never decreases.
C15_Step ==
    /\ \A id \in PostIDs :
         posts[id].exists =>
            /\ posts'[id].exists
            /\ posts'[id].Version >= posts[id].Version
            /\ posts'[id] # posts[id] =>
                 /\ posts'[id].Version = posts[id].Version + 1
                 /\ \E e \in Editors :
                      /\ UpdateCall(e)
                      /\ editors[e].post.ID = id
                      /\ editors[e].post.Version = posts[id].Version
                      /\ editors'[e].err = ErrNone
                      /\ editors'[e].post.Version = posts'[id].Version
    /\ \A e \in Editors :
         UpdateCall(e) =>
            LET id == editors[e].post.ID
            IN IF editors[e].post.Version = posts[id].Version
               THEN /\ editors'[e].err = ErrNone
                    /\ posts'[id].Version = posts[id].Version + 1
                    /\ posts'[id].Title = editors'[e].post.Title
               ELSE /\ editors'[e].err = ErrRecordNotFound
                    /\ posts' = posts

\* C15: PostStore.Update changes the post only when the stored version equals the
\* version the caller read, and then adds exactly 1 to the version; of two
\* concurrent updates based on the same version at most one succeeds, the other
\* returns ErrRecordNotFound and leaves the post unchanged; the version never
\* decreases.
C15_OptimisticUpdate == []C15_State /\ [][C15_Step]_vars

\* Two requests read the same version; one updated the post, the other lost.
C15_Witness ==
    \E e, f \in Editors :
        /\ e # f
        /\ editors[e].pc = "done" /\ editors[f].pc = "done"
        /\ editors[e].call = Call("Posts.Update", "ok")
        /\ editors[f].call = Call("Posts.Update", "ok")
        /\ editors[e].post.ID = editors[f].post.ID
        /\ editors[e].read = editors[f].read
        /\ editors[e].err = ErrNone
        /\ editors[f].err = ErrRecordNotFound
        /\ posts[editors[e].post.ID].Version = editors[e].read + 1
        /\ posts[editors[e].post.ID].Title = editors[e].post.Title

\* The user passes checkPostOwnership for the post on a route that requires role.
PassesOwnership(user, post, role) ==
    \A out \in Outcomes :
        LET r == checkPostOwnershipStep(
                     [IdleReq EXCEPT !.pc = "running", !.ctxUser = user,
                                     !.ctxPost = post], role, out)
        IN r.pc = "running" /\ r.pos = 1 /\ r.status = ""

\* C16: a post created through createPostHandler is stored with UserID equal to
\* the ID of the authenticated caller, so its creator passes checkPostOwnership
\* for it whatever the creator's role level.
C16_CreatorOwnsPost ==
    \A e \in Editors :
        ( /\ editors[e].pc = "done"
          /\ editors[e].op = "create"
          /\ editors[e].status = Created )
        => /\ posts[editors[e].post.ID].UserID = editors[e].caller
           /\ \A role \in RoleNames :
                PassesOwnership(UserRec(editors[e].caller, users[editors[e].caller].level),
                                editors[e].post, role)

\* This step is a call of UserStore.Activate; txlog' holds its token and result.
ActivateStep == txlog'.op = "Activate" /\ now' = now

\* The invitations a presented token matches at the current time.
Unexpired(token) == {i \in invitations : i.token = Hash(token) /\ i.expiry > now}

\* No invitation is left for a token that has activated a user.
C17_State == \A token \in spent : \A i \in invitations : i.token # Hash(token)

\* Activate succeeds only on an unexpired invitation of the token, and then sets
\* exactly that user active and deletes exactly that user's invitations; any
\* other call changes nothing, and returns ErrRecordNotFound when the database
\* answered and the token was used before, has expired or is unknown.
C17_Step ==
    ActivateStep =>
        LET token == txlog'.token
        IN IF txlog'.err = ErrNone
           THEN /\ token \notin spent
                /\ \E i \in Unexpired(token) :
                     /\ txlog'.userID = i.userID
                     /\ users' = [users EXCEPT ![i.userID].active = TRUE]
                     /\ invitations' = {j \in invitations : j.userID # i.userID}
           ELSE /\ users' = users
                /\ invitations' = invitations
                /\ ((token \in spent \/ Unexpired(token) = {}) /\ txlog'.env = "ok")
                      => txlog'.err = ErrRecordNotFound

\* C17: UserStore.Activate(token) succeeds only for an invitation whose expiry is
\* later than the current time, and then, in one transaction, sets the user
\* active and deletes all of that user's invitations; every later Activate with
\* the same token, and every Activate with an expired or unknown token, returns
\* ErrRecordNotFound and changes no user or invitation.
C17_ActivateOnce == []C17_State /\ [][C17_Step]_vars

\* A token activated its user, and a later Activate with it was answered
\* ErrRecordNotFound.
C17_Witness ==
    /\ txlog.op = "Activate"
    /\ txlog.token \in spent
    /\ txlog.err = ErrRecordNotFound
    /\ \E id \in UserIDs \ SeedIDs :
         /\ users[id].exists /\ users[id].active
         /\ \A i \in invitations : i.userID # id

====
